---- MODULE Spec2Model ----
(***************************************************************************)
(* ValutaTrade Hub: the portfolio ledger and the trade engine              *)
(* (valutatrade_hub/core: models.py, utils.py, usecases.py).               *)
(*                                                                         *)
(* Numbers.  Amounts and balances are Python floats.  They are modelled as *)
(* integers counting quanta of a currency; a rate is a pair <<num, den>>   *)
(* holding the decimal literal of the rate table exactly, and the product  *)
(* amount * rate is truncated to a whole quantum (a product that falls     *)
(* below one quantum is 0, as a float product underflows to 0.0).  NaN and *)
(* the infinities are outside the amounts the model draws.                 *)
(*                                                                         *)
(* Stores.  data/users.json and data/portfolios.json are the variables     *)
(* users and portfolios.  A file is missing, or holds text that is not     *)
(* JSON (an empty or a half-written file), or holds the JSON of a list.    *)
(***************************************************************************)
EXTENDS Integers, Sequences, FiniteSets, TLC

VARIABLES
    users,          \* data/users.json: a file holding a list of user dicts
    portfolios,     \* data/portfolios.json: a file holding a list of portfolio dicts
    current_user,   \* UserManager.current_user: a user record, or NoUser
    last,           \* the last call: its arguments, its result and what it touched
    pre,            \* history: portfolios as it was when the last call began
    nops,           \* history: number of deposit/buy/sell calls that saved the ledger
    nfaults,        \* history: number of save_json calls that failed
    rq,             \* the last direct query of get_exchange_rate
    job,            \* the call executed step by step, its loop position and result
    stack,          \* the frames of get_exchange_rate under that call
    ret,            \* the value or exception a frame hands to its caller
    callers,        \* concurrent callers: each one's session and call in progress
    writer          \* history: the call that saved the ledger last

vars == <<users, portfolios, current_user, last, pre, nops, nfaults, rq,
          job, stack, ret, callers, writer>>

\* the variables of the concurrent callers
conc == <<callers, writer>>

\* the variables of the step-by-step execution
exec == <<job, stack, ret>>

----------------------------------------------------------------------------
(* Bounds of the model *)

\* largest amount a caller passes
MaxAmount == 2

\* number of deposit/buy/sell calls of one run that save the ledger
MaxOps == 3

\* number of records the ledger file grows to
MaxRecords == 2

\* number of save_json calls of one run that fail
MaxFaults == 1

\* depth at which the interpreter raises RecursionError
RecursionLimit == 3

\* the amounts a caller passes: negative, zero, the smallest and the largest
Amounts == {-1, 0, 1, MaxAmount}

\* currency codes a caller passes to the trade engine
CodeInputs == {"USD", "EUR", "BTC", "btc", "XYZ"}

\* code strings passed to get_exchange_rate directly
RateInputs == {"USD", "EUR", "BTC", "ETH", "RUB", "usd", "btc", "eth", "XYZ", "xyz"}

\* pairs of codes a caller passes to get_rate
GetRatePairs ==
    {<<"USD", "EUR">>, <<"btc", "USD">>, <<"BTC", "BTC">>,
     <<"XYZ", "USD">>, <<"USD", "XYZ">>}

Usernames == {"alice", "bob"}

Passwords == {"123456", "abc"}

\* secrets.token_hex(8): the salts the model draws
Salts == {"5f"}

\* outcomes of one save_json call: written; refused before the file is opened
\* (the old content stays); opened for writing and then failed (the file is
\* left truncated or partial, so the next load_json gets JSONDecodeError)
IOOutcomes == {"ok", "fail", "trunc"}

----------------------------------------------------------------------------
(* Strings and numbers *)

\* str.upper() on the code strings of the model
Upper(s) ==
    CASE s = "usd" -> "USD"
      [] s = "eur" -> "EUR"
      [] s = "btc" -> "BTC"
      [] s = "eth" -> "ETH"
      [] s = "rub" -> "RUB"
      [] s = "xyz" -> "XYZ"
      [] OTHER -> s

\* amount * rate, for a rate <<num, den>>
Mul(amount, rate) == (amount * rate[1]) \div rate[2]

\* rate_to_usd * rate_from_usd
RateMul(r1, r2) == <<r1[1] * r2[1], r1[2] * r2[2]>>

One == <<1, 1>>

----------------------------------------------------------------------------
(* models.py: currency registry *)

CURRENCY_REGISTRY == {"USD", "EUR", "BTC", "ETH", "RUB"}

\* get_currency(code): [ok, code]; ok = FALSE stands for CurrencyNotFoundError
get_currency(code) ==
    IF Upper(code) \in CURRENCY_REGISTRY
    THEN [ok |-> TRUE, code |-> Upper(code)]
    ELSE [ok |-> FALSE, code |-> Upper(code)]

----------------------------------------------------------------------------
(* utils.py: get_exchange_rate *)

rates ==
    [k \in {"USD_USD", "RUB_RUB", "EUR_EUR", "BTC_BTC", "ETH_ETH",
            "USD_EUR", "EUR_USD", "USD_BTC", "BTC_USD", "USD_ETH", "ETH_USD",
            "USD_RUB", "RUB_USD", "EUR_RUB", "RUB_EUR", "BTC_EUR", "EUR_BTC",
            "BTC_RUB", "RUB_BTC", "ETH_EUR", "EUR_ETH", "ETH_RUB", "RUB_ETH"} |->
        CASE k = "USD_USD" -> <<1, 1>>
          [] k = "RUB_RUB" -> <<1, 1>>
          [] k = "EUR_EUR" -> <<1, 1>>
          [] k = "BTC_BTC" -> <<1, 1>>
          [] k = "ETH_ETH" -> <<1, 1>>
          [] k = "USD_EUR" -> <<92, 100>>
          [] k = "EUR_USD" -> <<108, 100>>
          [] k = "USD_BTC" -> <<1685, 100000000>>
          [] k = "BTC_USD" -> <<5933721, 100>>
          [] k = "USD_ETH" -> <<27, 100000>>
          [] k = "ETH_USD" -> <<3720, 1>>
          [] k = "USD_RUB" -> <<985, 10>>
          [] k = "RUB_USD" -> <<1016, 100000>>
          [] k = "EUR_RUB" -> <<10638, 100>>
          [] k = "RUB_EUR" -> <<94, 10000>>
          [] k = "BTC_EUR" -> <<5459023, 100>>
          [] k = "EUR_BTC" -> <<183, 10000000>>
          [] k = "BTC_RUB" -> <<5844705, 1>>
          [] k = "RUB_BTC" -> <<171, 1000000000>>
          [] k = "ETH_EUR" -> <<34224, 10>>
          [] k = "EUR_ETH" -> <<292, 1000000>>
          [] k = "ETH_RUB" -> <<366420, 1>>
          [] k = "RUB_ETH" -> <<273, 100000000>>]

\* key = f"{from_currency.upper()}_{to_currency.upper()}"
rate_key(from_currency, to_currency) ==
    Upper(from_currency) \o "_" \o Upper(to_currency)

RateOk(r) == [ok |-> TRUE, rate |-> r]

\* ValueError("Курс ... не найден"), or RecursionError at the depth limit
RateFail == [ok |-> FALSE, rate |-> <<0, 1>>]

\* get_exchange_rate comparing the two codes as given, not in upper case
RECURSIVE get_exchange_rate_at_exact_case(_, _, _)
get_exchange_rate_at_exact_case(from_currency, to_currency, depth) ==
    IF depth = 0 THEN RateFail
    ELSE IF from_currency = to_currency THEN RateOk(One)
    ELSE IF rate_key(from_currency, to_currency) \in DOMAIN rates
         THEN RateOk(rates[rate_key(from_currency, to_currency)])
    ELSE LET rate_to_usd == get_exchange_rate_at_exact_case(from_currency, "USD", depth - 1)
         IN  IF ~rate_to_usd.ok THEN RateFail
             ELSE LET rate_from_usd ==
                          get_exchange_rate_at_exact_case("USD", to_currency, depth - 1)
                  IN  IF ~rate_from_usd.ok THEN RateFail
                      ELSE RateOk(RateMul(rate_to_usd.rate, rate_from_usd.rate))

\* get_exchange_rate(from_currency, to_currency), called with `depth` frames
\* left before the interpreter raises RecursionError (an Exception, so the
\* caller's `except Exception: pass` catches it and raises ValueError)
RECURSIVE get_exchange_rate_at(_, _, _)
get_exchange_rate_at(from_currency, to_currency, depth) ==
    IF depth = 0 THEN RateFail
    ELSE IF Upper(from_currency) = Upper(to_currency) THEN RateOk(One)
    ELSE IF rate_key(from_currency, to_currency) \in DOMAIN rates
         THEN RateOk(rates[rate_key(from_currency, to_currency)])
    ELSE LET rate_to_usd == get_exchange_rate_at(from_currency, "USD", depth - 1)
         IN  IF ~rate_to_usd.ok THEN RateFail
             ELSE LET rate_from_usd == get_exchange_rate_at("USD", to_currency, depth - 1)
                  IN  IF ~rate_from_usd.ok THEN RateFail
                      ELSE RateOk(RateMul(rate_to_usd.rate, rate_from_usd.rate))

get_exchange_rate(from_currency, to_currency) ==
    get_exchange_rate_at(from_currency, to_currency, RecursionLimit)

----------------------------------------------------------------------------
(* utils.py: the JSON stores *)

\* a path with no file
Missing == [kind |-> "missing", data |-> <<>>]

\* a file whose text is not JSON: empty, or cut short while being written
Unparsable == [kind |-> "text", data |-> <<>>]

\* a file holding json.dump(data)
JsonFile(data) == [kind |-> "json", data |-> data]

\* the stores as the program may find them when it starts
InitialFiles == {Missing, Unparsable, JsonFile(<<>>)}

\* load_json(filepath, default): open() raises FileNotFoundError for a missing
\* file and json.load raises JSONDecodeError for text that is not JSON; both
\* are caught and the default is returned (every caller passes [])
load_json(file, default) ==
    IF file.kind = "missing" THEN default
    ELSE IF file.kind = "text" THEN default
    ELSE file.data

\* save_json(filepath, data): the file afterwards.  Every exception is
\* swallowed (the function returns False, which no caller reads).
save_json(io, file, data) ==
    CASE io = "ok"    -> JsonFile(data)
      [] io = "fail"  -> file
      [] io = "trunc" -> Unparsable

\* max(user.get("user_id", 0) for user in users)
RECURSIVE max_user_id(_)
max_user_id(us) ==
    IF Len(us) = 1 THEN us[1].user_id
    ELSE LET m == max_user_id(Tail(us))
         IN  IF us[1].user_id > m THEN us[1].user_id ELSE m

get_next_user_id(us) ==
    IF us = <<>> THEN 1 ELSE max_user_id(us) + 1

\* hashlib.sha256(f"{password}{salt}").hexdigest(), kept symbolic
hash_password(password, salt) == <<"sha256", password \o salt>>

----------------------------------------------------------------------------
(* models.py: User, Wallet, Portfolio *)

NoUser == [user_id |-> 0, username |-> ""]

\* User.to_dict() (the registration date is not modelled)
User_to_dict(user_id, username, hashed_password, salt) ==
    [user_id |-> user_id, username |-> username,
     hashed_password |-> hashed_password, salt |-> salt]

\* User.verify_password
verify_password(user, password) ==
    user.hashed_password = hash_password(password, user.salt)

\* Wallet(currency_code, balance): currency_code is get_currency(code).code
Wallet(currency_code, balance) ==
    [currency_code |-> get_currency(currency_code).code, balance |-> balance]

\* Wallet.balance setter, applied by deposit and withdraw: [err, wallet]
set_balance(wallet, value) ==
    IF value < 0
    THEN [err |-> "ValueError", wallet |-> wallet]
    ELSE [err |-> "", wallet |-> [wallet EXCEPT !.balance = value]]

\* a deposit that assigns the amount instead of adding it
Wallet_deposit_assigns(wallet, amount) ==
    IF amount <= 0
    THEN [err |-> "ValueError", wallet |-> wallet]
    ELSE set_balance(wallet, amount)

Wallet_deposit(wallet, amount) ==
    IF amount <= 0
    THEN [err |-> "ValueError", wallet |-> wallet]
    ELSE set_balance(wallet, wallet.balance + amount)

\* a withdraw that validates and then does not store the new balance
Wallet_withdraw_not_stored(wallet, amount) ==
    IF amount <= 0
    THEN [err |-> "ValueError", wallet |-> wallet]
    ELSE IF amount > wallet.balance
    THEN [err |-> "InsufficientFundsError", wallet |-> wallet]
    ELSE [err |-> "", wallet |-> wallet]

Wallet_withdraw(wallet, amount) ==
    IF amount <= 0
    THEN [err |-> "ValueError", wallet |-> wallet]
    ELSE IF amount > wallet.balance
    THEN [err |-> "InsufficientFundsError", wallet |-> wallet]
    ELSE set_balance(wallet, wallet.balance - amount)

\* Portfolio(user_id).  _wallets is a dict: a sequence of entries
\* [key, wallet] in insertion order, which is the order .keys() iterates.
Portfolio(user_id) == [user_id |-> user_id, wallets |-> <<>>]

Keys(wallets) == {wallets[i].key : i \in DOMAIN wallets}

\* position of the entry of key k in the dict, 0 when k is not a key
KeyIndex(wallets, k) ==
    IF k \in Keys(wallets)
    THEN CHOOSE i \in DOMAIN wallets : wallets[i].key = k
    ELSE 0

\* Portfolio.get_wallet(currency_code): position of the wallet, 0 for None
Portfolio_get_wallet(portfolio, currency_code) ==
    KeyIndex(portfolio.wallets, Upper(currency_code))

\* an add_wallet that stores the wallet under the code as given, unchecked
Portfolio_add_wallet_as_given(portfolio, currency_code) ==
    [ok |-> TRUE,
     portfolio |-> [portfolio EXCEPT !.wallets =
         Append(@, [key |-> currency_code, wallet |-> Wallet(currency_code, 0)])]]

\* Portfolio.add_wallet(currency_code): [ok, portfolio]; ok = FALSE is the
\* ValueError raised for an existing key
Portfolio_add_wallet(portfolio, currency_code) ==
    IF Upper(currency_code) \in Keys(portfolio.wallets)
    THEN [ok |-> FALSE, portfolio |-> portfolio]
    ELSE [ok |-> TRUE,
          portfolio |-> [portfolio EXCEPT !.wallets =
              Append(@, [key |-> Upper(currency_code),
                         wallet |-> Wallet(Upper(currency_code), 0)])]]

\* the get-or-create step of deposit/buy/sell:
\*   w = portfolio.get_wallet(code); if not w: w = portfolio.add_wallet(code)
ensure_wallet(portfolio, currency_code) ==
    IF Portfolio_get_wallet(portfolio, currency_code) # 0
    THEN portfolio
    ELSE Portfolio_add_wallet(portfolio, currency_code).portfolio

\* Portfolio.to_dict()
Portfolio_to_dict(portfolio) ==
    [user_id |-> portfolio.user_id,
     wallets |-> [i \in DOMAIN portfolio.wallets |->
                    [key |-> portfolio.wallets[i].key,
                     wallet |-> [currency_code |-> portfolio.wallets[i].wallet.currency_code,
                                 balance |-> portfolio.wallets[i].wallet.balance]]]]

\* a from_dict that rebuilds each wallet from its code alone, so with the
\* default balance
Portfolio_from_dict_default_balance(data) ==
    [user_id |-> data.user_id,
     wallets |-> [i \in DOMAIN data.wallets |->
                    [key |-> data.wallets[i].key,
                     wallet |-> Wallet(data.wallets[i].wallet.currency_code, 0)]]]

\* Portfolio.from_dict(data): each wallet is rebuilt by Wallet.from_dict
\* under the key it was stored under
Portfolio_from_dict(data) ==
    [user_id |-> data.user_id,
     wallets |-> [i \in DOMAIN data.wallets |->
                    [key |-> data.wallets[i].key,
                     wallet |-> Wallet(data.wallets[i].wallet.currency_code,
                                       data.wallets[i].wallet.balance)]]]

\* a search that takes the first record of the list, whoever owns it
find_portfolio_first(pfs, user_id) ==
    IF pfs # <<>> THEN 1 ELSE 0

\* next((p for p in portfolios if p["user_id"] == user_id), ...): position of
\* the first record of the user, 0 when there is none
find_portfolio(pfs, user_id) ==
    IF \E i \in DOMAIN pfs : pfs[i].user_id = user_id
    THEN CHOOSE i \in DOMAIN pfs :
            /\ pfs[i].user_id = user_id
            /\ \A j \in 1 .. (i - 1) : pfs[j].user_id # user_id
    ELSE 0

\* a save of the record that appends it without looking for the user's record
put_portfolio_appended(pfs, user_id, d, append) ==
    Append(pfs, d)

\* for i, p in enumerate(portfolios): if p["user_id"] == user_id:
\*     portfolios[i] = d; break
\* else: portfolios.append(d)        (append = FALSE: no else branch)
put_portfolio(pfs, user_id, d, append) ==
    IF find_portfolio(pfs, user_id) # 0
    THEN [pfs EXCEPT ![find_portfolio(pfs, user_id)] = d]
    ELSE IF append THEN Append(pfs, d) ELSE pfs

----------------------------------------------------------------------------
(* usecases.py: PortfolioManager.  Each method is an operator from the      *)
(* session user, the arguments and the ledger it would load to its outcome: *)
(*   res         "ok" (True, msg), "fail" (False, msg), "raise" (exception) *)
(*   err         the failure kind, "" on success                            *)
(*   pay         buy: the funding currency; sell: the target currency       *)
(*   rate, value the rate used and amount * rate                            *)
(*   read_rate   get_exchange_rate was called                               *)
(*   read_ledger load_json("data/portfolios.json") was called               *)
(*   save, data  save_json is called, with this list                        *)

NoRate == <<0, 1>>

Outcome(res, err, pay, rate, value, read_rate, read_ledger, save, data) ==
    [res |-> res, err |-> err, pay |-> pay, rate |-> rate, value |-> value,
     read_rate |-> read_rate, read_ledger |-> read_ledger,
     save |-> save, data |-> data]

\* a return before the ledger is loaded
Early(err) == Outcome("fail", err, "", NoRate, 0, FALSE, FALSE, FALSE, <<>>)

is_logged_in(cu) == cu # NoUser

\* the portfolio a method works on: Portfolio.from_dict(portfolio_data) if the
\* user has a record, else Portfolio(user.user_id)
load_portfolio(pfs, user_id) ==
    IF find_portfolio(pfs, user_id) # 0
    THEN Portfolio_from_dict(pfs[find_portfolio(pfs, user_id)])
    ELSE Portfolio(user_id)

\* the funding candidates without the test for a positive balance
available_payment_currencies_any_balance(portfolio, currency_code) ==
    LET all == [i \in DOMAIN portfolio.wallets |-> portfolio.wallets[i].key]
        usable(wallet_currency) == Upper(wallet_currency) # Upper(currency_code)
    IN  SelectSeq(all, usable)

\* buy: available_payment_currencies, the keys of the wallets other than the
\* target (compared in upper case) that hold a positive balance, in dict order
available_payment_currencies(portfolio, currency_code) ==
    LET all == [i \in DOMAIN portfolio.wallets |-> portfolio.wallets[i].key]
        usable(wallet_currency) ==
            /\ Upper(wallet_currency) # Upper(currency_code)
            /\ Portfolio_get_wallet(portfolio, wallet_currency) # 0
            /\ portfolio.wallets[Portfolio_get_wallet(portfolio, wallet_currency)]
                    .wallet.balance > 0
    IN  SelectSeq(all, usable)

\* buy that debits the funding wallet without comparing its balance with the
\* cost, by plain subtraction on the stored balance
buy_with_overdraw(pfs, user_id, portfolio, currency_code, amount, payment_currency) ==
    LET pay_i == Portfolio_get_wallet(portfolio, payment_currency)
        r == get_exchange_rate(currency_code, payment_currency)
        cost_in_payment == Mul(amount, r.rate)
        p1 == ensure_wallet(portfolio, currency_code)
        tgt_i == Portfolio_get_wallet(p1, currency_code)
        p2 == [p1 EXCEPT !.wallets[pay_i].wallet.balance = @ - cost_in_payment]
        p3 == [p2 EXCEPT !.wallets[tgt_i].wallet.balance = @ + amount]
    IN  IF ~r.ok
        THEN Outcome("fail", "RateUnavailable", payment_currency, NoRate, 0,
                     TRUE, TRUE, FALSE, <<>>)
        ELSE Outcome("ok", "", payment_currency, r.rate, cost_in_payment,
                     TRUE, TRUE, TRUE,
                     put_portfolio(pfs, user_id, Portfolio_to_dict(p3), TRUE))

\* buy, from the funding wallet on (lines 159-197)
buy_with(pfs, user_id, portfolio, currency_code, amount, payment_currency) ==
    LET pay_i == Portfolio_get_wallet(portfolio, payment_currency)
        r == get_exchange_rate(currency_code, payment_currency)
        cost_in_payment == Mul(amount, r.rate)
        p1 == ensure_wallet(portfolio, currency_code)
        tgt_i == Portfolio_get_wallet(p1, currency_code)
        w == Wallet_withdraw(p1.wallets[pay_i].wallet, cost_in_payment)
        p2 == [p1 EXCEPT !.wallets[pay_i].wallet = w.wallet]
        d == Wallet_deposit(p2.wallets[tgt_i].wallet, amount)
        p3 == [p2 EXCEPT !.wallets[tgt_i].wallet = d.wallet]
    IN  IF ~r.ok
        THEN Outcome("fail", "RateUnavailable", payment_currency, NoRate, 0,
                     TRUE, TRUE, FALSE, <<>>)
        ELSE IF portfolio.wallets[pay_i].wallet.balance < cost_in_payment
        THEN Outcome("fail", "InsufficientFunds", payment_currency, r.rate,
                     cost_in_payment, TRUE, TRUE, FALSE, <<>>)
        ELSE IF w.err = "InsufficientFundsError"
        THEN Outcome("fail", "InsufficientFunds", payment_currency, r.rate,
                     cost_in_payment, TRUE, TRUE, FALSE, <<>>)
        ELSE IF w.err # "" \/ d.err # ""
        THEN Outcome("raise", "ValueError", payment_currency, r.rate,
                     cost_in_payment, TRUE, TRUE, FALSE, <<>>)
        ELSE Outcome("ok", "", payment_currency, r.rate, cost_in_payment,
                     TRUE, TRUE, TRUE,
                     put_portfolio(pfs, user_id, Portfolio_to_dict(p3), TRUE))

\* PortfolioManager.buy(currency_code, amount)
buy(cu, store, currency_code, amount) ==
    IF ~is_logged_in(cu) THEN Early("NotAuthenticated")
    ELSE IF ~get_currency(currency_code).ok THEN Early("UnknownCurrency")
    ELSE IF amount <= 0 THEN Early("InvalidAmount")
    ELSE LET pfs == load_json(store, <<>>)
             portfolio == load_portfolio(pfs, cu.user_id)
             available == available_payment_currencies(portfolio, currency_code)
         IN  IF available = <<>>
             THEN Outcome("fail", "NoFundingSource", "", NoRate, 0,
                          FALSE, TRUE, FALSE, <<>>)
             ELSE buy_with(pfs, cu.user_id, portfolio, currency_code, amount,
                           available[1])

\* sell: target_currency = "USD", replaced by the first key that differs from
\* the currency_code argument when the portfolio holds wallets but no USD one
sell_target_currency(portfolio, currency_code) ==
    LET ws == portfolio.wallets
        other(i) == ws[i].key # currency_code
    IN  IF "USD" \notin Keys(ws) /\ ws # <<>> /\ (\E i \in DOMAIN ws : other(i))
        THEN ws[CHOOSE i \in DOMAIN ws :
                    other(i) /\ \A j \in 1 .. (i - 1) : ~other(j)].key
        ELSE "USD"

\* sell, from the target choice on (lines 236-270)
sell_to(pfs, user_id, portfolio, currency_code, amount, target_currency) ==
    LET src_i == Portfolio_get_wallet(portfolio, currency_code)
        r == get_exchange_rate(currency_code, target_currency)
        revenue == Mul(amount, r.rate)
        p1 == ensure_wallet(portfolio, target_currency)
        tgt_i == Portfolio_get_wallet(p1, target_currency)
        w == Wallet_withdraw(p1.wallets[src_i].wallet, amount)
        p2 == [p1 EXCEPT !.wallets[src_i].wallet = w.wallet]
        d == Wallet_deposit(p2.wallets[tgt_i].wallet, revenue)
        p3 == [p2 EXCEPT !.wallets[tgt_i].wallet = d.wallet]
    IN  IF ~r.ok
        THEN Outcome("fail", "RateUnavailable", target_currency, NoRate, 0,
                     TRUE, TRUE, FALSE, <<>>)
        ELSE IF w.err # "" \/ d.err # ""
        THEN Outcome("fail", IF w.err # "" THEN w.err ELSE d.err,
                     target_currency, r.rate, revenue, TRUE, TRUE, FALSE, <<>>)
        ELSE Outcome("ok", "", target_currency, r.rate, revenue,
                     TRUE, TRUE, TRUE,
                     put_portfolio(pfs, user_id, Portfolio_to_dict(p3), FALSE))

\* PortfolioManager.sell(currency_code, amount)
sell(cu, store, currency_code, amount) ==
    IF ~is_logged_in(cu) THEN Early("NotAuthenticated")
    ELSE IF ~get_currency(currency_code).ok THEN Early("UnknownCurrency")
    ELSE IF amount <= 0 THEN Early("InvalidAmount")
    ELSE LET pfs == load_json(store, <<>>)
             found == find_portfolio(pfs, cu.user_id) # 0
             portfolio == load_portfolio(pfs, cu.user_id)
             src_i == Portfolio_get_wallet(portfolio, currency_code)
         IN  IF ~found
             THEN Outcome("fail", "PortfolioNotFound", "", NoRate, 0,
                          FALSE, TRUE, FALSE, <<>>)
             ELSE IF src_i = 0
             THEN Outcome("fail", "NoWallet", "", NoRate, 0,
                          FALSE, TRUE, FALSE, <<>>)
             ELSE IF portfolio.wallets[src_i].wallet.balance < amount
             THEN Outcome("fail", "InsufficientFunds", "", NoRate, 0,
                          FALSE, TRUE, FALSE, <<>>)
             ELSE sell_to(pfs, cu.user_id, portfolio, currency_code, amount,
                          sell_target_currency(portfolio, currency_code))

\* deposit without the check of the amount
deposit_unvalidated(cu, store, currency_code, amount) ==
    IF ~is_logged_in(cu) THEN Early("NotAuthenticated")
    ELSE IF ~get_currency(currency_code).ok THEN Early("UnknownCurrency")
    ELSE LET pfs == load_json(store, <<>>)
             portfolio == load_portfolio(pfs, cu.user_id)
             p1 == ensure_wallet(portfolio, currency_code)
             i == Portfolio_get_wallet(p1, currency_code)
             d == Wallet_deposit(p1.wallets[i].wallet, amount)
             p2 == [p1 EXCEPT !.wallets[i].wallet = d.wallet]
         IN  IF d.err # ""
             THEN Outcome("raise", d.err, "", NoRate, 0, FALSE, TRUE, FALSE, <<>>)
             ELSE Outcome("ok", "", "", NoRate, 0, FALSE, TRUE, TRUE,
                          put_portfolio(pfs, cu.user_id, Portfolio_to_dict(p2), TRUE))

\* PortfolioManager.deposit(currency_code, amount)
deposit(cu, store, currency_code, amount) ==
    IF ~is_logged_in(cu) THEN Early("NotAuthenticated")
    ELSE IF amount <= 0 THEN Early("InvalidAmount")
    ELSE IF ~get_currency(currency_code).ok THEN Early("UnknownCurrency")
    ELSE LET pfs == load_json(store, <<>>)
             portfolio == load_portfolio(pfs, cu.user_id)
             p1 == ensure_wallet(portfolio, currency_code)
             i == Portfolio_get_wallet(p1, currency_code)
             d == Wallet_deposit(p1.wallets[i].wallet, amount)
             p2 == [p1 EXCEPT !.wallets[i].wallet = d.wallet]
         IN  IF d.err # ""
             THEN Outcome("raise", d.err, "", NoRate, 0, FALSE, TRUE, FALSE, <<>>)
             ELSE Outcome("ok", "", "", NoRate, 0, FALSE, TRUE, TRUE,
                          put_portfolio(pfs, cu.user_id, Portfolio_to_dict(p2), TRUE))

\* PortfolioManager.get_rate(from_currency, to_currency): no login check
get_rate(cu, from_currency, to_currency) ==
    IF ~get_currency(from_currency).ok \/ ~get_currency(to_currency).ok
    THEN Early("UnknownCurrency")
    ELSE LET r == get_exchange_rate(from_currency, to_currency)
         IN  IF r.ok
             THEN Outcome("ok", "", "", r.rate, 0, TRUE, FALSE, FALSE, <<>>)
             ELSE Outcome("fail", "RateUnavailable", "", NoRate, 0,
                          TRUE, FALSE, FALSE, <<>>)

\* PortfolioManager.show_portfolio(base_currency); the rendered table and the
\* total are the message, which is not modelled.  A rate is read for every
\* wallet whose key is not base_currency (failures are valued 0).
show_portfolio(cu, store, base_currency) ==
    IF ~is_logged_in(cu) THEN Early("NotAuthenticated")
    ELSE LET pfs == load_json(store, <<>>)
             portfolio == load_portfolio(pfs, cu.user_id)
         IN  IF find_portfolio(pfs, cu.user_id) = 0
             THEN Outcome("ok", "", "", NoRate, 0, FALSE, TRUE, FALSE, <<>>)
             ELSE Outcome("ok", "", "", NoRate, 0,
                          \E k \in Keys(portfolio.wallets) : k # base_currency,
                          TRUE, FALSE, <<>>)

----------------------------------------------------------------------------
(* usecases.py: UserManager *)

\* UserManager.register(username, password), with the salt drawn by
\* hash_password and the outcomes of its two save_json calls:
\* [res, err, users, portfolios]
register(us_store, pf_store, username, password, salt, io1, io2) ==
    LET us == load_json(us_store, <<>>)
        user_id == get_next_user_id(load_json(us_store, <<>>))
        user == User_to_dict(user_id, username, hash_password(password, salt), salt)
        us_saved == save_json(io1, us_store, Append(us, user))
        pfs == load_json(pf_store, <<>>)
        pf_saved == save_json(io2, pf_store,
                              Append(pfs, Portfolio_to_dict(Portfolio(user_id))))
    IN  IF \E i \in DOMAIN us : us[i].username = username
        THEN [res |-> "fail", err |-> "UsernameTaken",
              users |-> us_store, portfolios |-> pf_store]
        ELSE IF Len(password) < 4
        THEN [res |-> "fail", err |-> "PasswordTooShort",
              users |-> us_store, portfolios |-> pf_store]
        ELSE [res |-> "ok", err |-> "", users |-> us_saved, portfolios |-> pf_saved]

\* UserManager.login(username, password): [res, err, current_user]
login(cu, us_store, username, password) ==
    LET us == load_json(us_store, <<>>)
        found == \E i \in DOMAIN us : us[i].username = username
        user_data == us[CHOOSE i \in DOMAIN us :
                            /\ us[i].username = username
                            /\ \A j \in 1 .. (i - 1) : us[j].username # username]
    IN  IF ~found
        THEN [res |-> "fail", err |-> "UserNotFound", current_user |-> cu]
        ELSE IF ~verify_password(user_data, password)
        THEN [res |-> "fail", err |-> "WrongPassword", current_user |-> cu]
        ELSE [res |-> "ok", err |-> "",
              current_user |-> [user_id |-> user_data.user_id,
                                username |-> user_data.username]]

----------------------------------------------------------------------------
(* cli/interface.py: the interactive shell and its deposit command *)

\* the names bound in the module namespace of interface.py (its imports)
interface_names ==
    {"sys", "Optional", "UserManager", "PortfolioManager",
     "CurrencyNotFoundError", "InsufficientFundsError"}

\* the amount words typed at the prompt
AmountWords == {"1", "2", "0", "-1", "abc"}

\* float(text): [ok, value]; ok = FALSE is ValueError
float(text) ==
    CASE text = "1"  -> [ok |-> TRUE, value |-> 1]
      [] text = "2"  -> [ok |-> TRUE, value |-> 2]
      [] text = "0"  -> [ok |-> TRUE, value |-> 0]
      [] text = "-1" -> [ok |-> TRUE, value |-> -1]
      [] OTHER       -> [ok |-> FALSE, value |-> 0]

\* the lines typed at the prompt: `deposit <currency> <amount>`, and the same
\* with one more word before the currency
ShellLines ==
    {<<"deposit", c, a>> : c \in CodeInputs, a \in AmountWords}
        \cup {<<"deposit", "to", c, a>> : c \in {"USD", "XYZ"}, a \in AmountWords}

\* list[1:]
Rest(list) == IF list = <<>> THEN <<>> ELSE Tail(list)

\* SimpleCLI._deposit, lines 173-191: the record of the user gets the wallet
\* and the amount is added to its balance; format_currency is not a name of
\* the module, so the call raises NameError after the save
deposit_in_place(cu, pfs, currency, amount) ==
    LET i == find_portfolio(pfs, cu.user_id)
        ws == pfs[i].wallets
        ws1 == IF currency \in Keys(ws) THEN ws
               ELSE Append(ws, [key |-> currency,
                                wallet |-> [currency_code |-> currency, balance |-> 0]])
        ws2 == [ws1 EXCEPT ![KeyIndex(ws1, currency)].wallet.balance = @ + amount]
    IN  IF i = 0
        THEN Outcome("fail", "PortfolioNotFound", "", NoRate, 0, FALSE, TRUE, FALSE, <<>>)
        ELSE Outcome(IF "format_currency" \in interface_names THEN "ok" ELSE "raise",
                     IF "format_currency" \in interface_names THEN "" ELSE "NameError",
                     "", NoRate, 0, FALSE, TRUE,
                     "save_json" \in interface_names,
                     [pfs EXCEPT ![i].wallets = ws2])

\* SimpleCLI._deposit(args)
shell_deposit(cu, store, args) ==
    IF Len(args) < 2 THEN Early("Usage")
    ELSE IF ~float(args[2]).ok THEN Early("NotANumber")
    ELSE IF "load_json" \notin interface_names
    THEN Outcome("raise", "NameError", "", NoRate, 0, FALSE, FALSE, FALSE, <<>>)
    ELSE IF ~is_logged_in(cu)
    THEN Outcome("fail", "NotAuthenticated", "", NoRate, 0, FALSE, TRUE, FALSE, <<>>)
    ELSE deposit_in_place(cu, load_json(store, <<>>), Upper(args[1]),
                          float(args[2]).value)

\* SimpleCLI._interactive_mode, lines 69-78, for a line whose first word is
\* deposit: args = parts[1:] and the handler is called with args[1:]; an
\* exception of the handler is caught by the loop and printed
interactive_deposit(cu, store, parts) ==
    LET args == IF Len(parts) > 1 THEN Rest(parts) ELSE <<>>
    IN  shell_deposit(cu, store, Rest(args))

----------------------------------------------------------------------------
(* The state machine: one action per call of the operation surface *)

\* the record kept of a call
Call(op, code, code2, amount, user_id, o, saved) ==
    [op |-> op, code |-> code, code2 |-> code2, amount |-> amount,
     user_id |-> user_id, res |-> o.res, err |-> o.err, pay |-> o.pay,
     rate |-> o.rate, value |-> o.value, read_rate |-> o.read_rate,
     read_ledger |-> o.read_ledger, saved |-> saved]

NoCall ==
    Call("init", "", "", 0, 0,
         Outcome("ok", "", "", NoRate, 0, FALSE, FALSE, FALSE, <<>>), "none")

NoQuery == [from |-> "", to |-> "", res |-> RateFail]

\* nothing is being executed step by step
NoJob ==
    [op |-> "none", from |-> "", to |-> "", wallets |-> <<>>, i |-> 1,
     total |-> 0, done |-> FALSE, res |-> "", rate |-> <<0, 1>>]

NoRet == [kind |-> "none", rate |-> <<0, 1>>]

\* the processes that use the ledger at the same time
Callers == {1, 2}

\* a caller between two calls, logged in as cu
Idle(cu) ==
    [pc |-> "idle", user |-> cu, op |-> "", code |-> "", amount |-> 0,
     seen |-> Missing, res |-> "", n |-> 0]

\* no call has saved the ledger yet; `over` is the save before the last one
NoWrite ==
    [caller |-> 0, user |-> NoUser, op |-> "", code |-> "", amount |-> 0,
     seen |-> Missing, stale |-> FALSE,
     over |-> [caller |-> 0, user |-> NoUser, op |-> "", code |-> ""]]

Init ==
    /\ users \in InitialFiles
    /\ portfolios \in InitialFiles
    /\ current_user = NoUser
    /\ last = NoCall
    /\ pre = portfolios
    /\ nops = 0
    /\ nfaults = 0
    /\ rq = NoQuery
    /\ job = NoJob
    /\ stack = <<>>
    /\ ret = NoRet
    /\ callers = [c \in Callers |-> Idle(NoUser)]
    /\ writer = NoWrite

\* 1 when save_json is called and fails
Faults(saves, io) == IF saves /\ io # "ok" THEN 1 ELSE 0

\* the effect of a PortfolioManager call with outcome o; a call begins at the
\* prompt, once the previous one has returned
Apply(op, code, code2, amount, o, io) ==
    /\ nfaults + Faults(o.save, io) <= MaxFaults
    /\ nfaults' = nfaults + Faults(o.save, io)
    /\ portfolios' = IF o.save THEN save_json(io, portfolios, o.data) ELSE portfolios
    /\ last' = Call(op, code, code2, amount, current_user.user_id, o,
                    IF o.save THEN io ELSE "none")
    /\ pre' = portfolios
    /\ UNCHANGED <<users, current_user, rq, exec, conc>>

\* 1 when the call reaches save_json
Saves(o) == IF o.save THEN 1 ELSE 0

Register(username, password, salt, io1, io2) ==
    /\ last = NoCall
    /\ Len(load_json(portfolios, <<>>)) < MaxRecords
    /\ \E o \in {register(users, portfolios, username, password, salt, io1, io2)} :
        /\ nfaults + Faults(o.res = "ok", io1) + Faults(o.res = "ok", io2) <= MaxFaults
        /\ nfaults' = nfaults + Faults(o.res = "ok", io1) + Faults(o.res = "ok", io2)
        /\ users' = o.users
        /\ portfolios' = o.portfolios
        /\ last' = Call("register", username, "", 0, current_user.user_id,
                        Outcome(o.res, o.err, "", NoRate, 0, FALSE, o.res = "ok",
                                FALSE, <<>>),
                        IF o.res = "ok" THEN io2 ELSE "none")
        /\ pre' = portfolios
        /\ UNCHANGED <<current_user, nops, rq, exec, conc>>

Login(username, password) ==
    /\ last = NoCall
    /\ \E o \in {login(current_user, users, username, password)} :
        /\ current_user' = o.current_user
        /\ last' = Call("login", username, "", 0, current_user.user_id,
                        Outcome(o.res, o.err, "", NoRate, 0, FALSE, FALSE,
                                FALSE, <<>>), "none")
        /\ pre' = portfolios
        /\ UNCHANGED <<users, portfolios, nops, nfaults, rq, exec, conc>>

Deposit(currency_code, amount, io) ==
    /\ last = NoCall
    /\ nops < MaxOps
    /\ \E o \in {deposit(current_user, portfolios, currency_code, amount)} :
        /\ nops' = nops + Saves(o)
        /\ Apply("deposit", currency_code, "", amount, o, io)

Buy(currency_code, amount, io) ==
    /\ last = NoCall
    /\ nops < MaxOps
    /\ \E o \in {buy(current_user, portfolios, currency_code, amount)} :
        /\ nops' = nops + Saves(o)
        /\ Apply("buy", currency_code, "", amount, o, io)

Sell(currency_code, amount, io) ==
    /\ last = NoCall
    /\ nops < MaxOps
    /\ \E o \in {sell(current_user, portfolios, currency_code, amount)} :
        /\ nops' = nops + Saves(o)
        /\ Apply("sell", currency_code, "", amount, o, io)

GetRate(from_currency, to_currency) ==
    /\ last = NoCall
    /\ nops' = nops
    /\ \E o \in {get_rate(current_user, from_currency, to_currency)} :
        Apply("get_rate", from_currency, to_currency, 0, o, "ok")

ShowPortfolio(base_currency) ==
    /\ last = NoCall
    /\ nops' = nops
    /\ \E o \in {show_portfolio(current_user, portfolios, base_currency)} :
        Apply("show_portfolio", base_currency, "", 0, o, "ok")

\* the line `deposit ...` entered at the prompt of the shell
ShellDeposit(parts) ==
    /\ last = NoCall
    /\ nops < MaxOps
    /\ \E o \in {interactive_deposit(current_user, portfolios, parts)} :
        /\ nops' = nops + Saves(o)
        /\ Apply("shell deposit", parts[2], parts[3], float(parts[3]).value, o, "ok")

\* SimpleCLI._interactive_mode: the result is printed and the loop reads the
\* next command; the record of the call is dropped
Prompt ==
    /\ last # NoCall
    /\ last' = NoCall
    /\ pre' = portfolios
    /\ UNCHANGED <<users, portfolios, current_user, nops, nfaults, rq, exec, conc>>

\* a direct call of get_exchange_rate
Query(from_currency, to_currency) ==
    /\ rq' = [from |-> from_currency, to |-> to_currency,
              res |-> get_exchange_rate(from_currency, to_currency)]
    /\ UNCHANGED <<users, portfolios, current_user, last, pre, nops, nfaults, exec, conc>>

\* every call, with save_json's outcomes drawn from IO
NextOn(IO) ==
    \/ \E u \in Usernames, p \in Passwords, s \in Salts, io1 \in IO, io2 \in IO :
            Register(u, p, s, io1, io2)
    \/ \E u \in Usernames, p \in Passwords : Login(u, p)
    \/ \E c \in CodeInputs, a \in Amounts, io \in IO : Deposit(c, a, io)
    \/ \E c \in CodeInputs, a \in Amounts, io \in IO : Buy(c, a, io)
    \/ \E c \in CodeInputs, a \in Amounts, io \in IO : Sell(c, a, io)
    \/ \E ft \in GetRatePairs : GetRate(ft[1], ft[2])
    \/ \E b \in CodeInputs : ShowPortfolio(b)
    \/ Prompt

\* the stores can always be written
Next == NextOn({"ok"})

Spec == Init /\ [][Next]_vars

\* a write of a store may fail
NextIO == NextOn(IOOutcomes)

SpecIO == Init /\ [][NextIO]_vars

\* the calls of the operation surface and the deposit command of the shell
NextShell ==
    \/ Next
    \/ \E parts \in ShellLines : ShellDeposit(parts)

SpecShell == Init /\ [][NextShell]_vars

\* get_exchange_rate as a pure function of its two arguments
NextRate == \E f \in RateInputs, t \in RateInputs : Query(f, t)

SpecRate == Init /\ [][NextRate]_vars

----------------------------------------------------------------------------
(* Execution step by step: get_exchange_rate frame by frame, and the loop  *)
(* of show_portfolio over the wallets.  One action is one step of the      *)
(* interpreter between two calls or returns.                               *)

\* the wallets of the portfolios show_portfolio is run on, as [key, balance]
ShowWallets ==
    {<<>>,
     <<[key |-> "USD", balance |-> MaxAmount]>>,
     <<[key |-> "USD", balance |-> MaxAmount], [key |-> "BTC", balance |-> 1]>>,
     <<[key |-> "BTC", balance |-> MaxAmount], [key |-> "ETH", balance |-> 1]>>}

\* a frame of get_exchange_rate(from, to): pc is "call" (the body has not run),
\* "leg1" (waiting for rate_to_usd) or "leg2" (waiting for rate_from_usd)
Frame(from_currency, to_currency) ==
    [from |-> from_currency, to |-> to_currency, pc |-> "call", r1 |-> <<0, 1>>]

Top(st) == st[Len(st)]

Pop(st) == SubSeq(st, 1, Len(st) - 1)

\* return value
Returned(r) == [kind |-> "value", rate |-> r]

\* an exception on its way to the caller (ValueError or RecursionError)
Raised == [kind |-> "raise", rate |-> <<0, 1>>]

\* the top frame calls get_exchange_rate(f, t) and will continue at pc; at
\* the depth limit the call raises RecursionError inside the caller's try
call_rate(st, pc, f, t) ==
    IF Len(st) >= RecursionLimit
    THEN [stack |-> [st EXCEPT ![Len(st)].pc = pc], ret |-> Raised]
    ELSE [stack |-> Append([st EXCEPT ![Len(st)].pc = pc], Frame(f, t)),
          ret |-> [kind |-> "none", rate |-> <<0, 1>>]]

\* lines 72-81: identity, table, else the first recursive call
rate_body(st) ==
    LET f == Top(st)
    IN  IF Upper(f.from) = Upper(f.to)
        THEN [stack |-> Pop(st), ret |-> Returned(One)]
        ELSE IF rate_key(f.from, f.to) \in DOMAIN rates
        THEN [stack |-> Pop(st), ret |-> Returned(rates[rate_key(f.from, f.to)])]
        ELSE call_rate(st, "leg1", f.from, "USD")

\* an except clause that runs the body of the function again
rate_except_retries(st) ==
    [stack |-> [st EXCEPT ![Len(st)].pc = "call"],
     ret |-> [kind |-> "none", rate |-> <<0, 1>>]]

\* lines 84-88: except Exception: pass, then raise ValueError
rate_except(st) ==
    [stack |-> Pop(st), ret |-> Raised]

\* lines 81-85: a recursive call of the top frame has come back with r
rate_resume(st, r) ==
    LET f == Top(st)
    IN  IF r.kind = "raise" THEN rate_except(st)
        ELSE IF f.pc = "leg1"
        THEN call_rate([st EXCEPT ![Len(st)].r1 = r.rate], "leg2", "USD", f.to)
        ELSE [stack |-> Pop(st), ret |-> Returned(RateMul(f.r1, r.rate))]

\* a call starts: get_exchange_rate(from, to), or show_portfolio(base) on a
\* portfolio of the logged-in user
InitExec ==
    /\ users = Missing
    /\ portfolios = Missing
    /\ current_user = NoUser
    /\ last = NoCall
    /\ pre = Missing
    /\ nops = 0
    /\ nfaults = 0
    /\ rq = NoQuery
    /\ ret = NoRet
    /\ callers = [c \in Callers |-> Idle(NoUser)]
    /\ writer = NoWrite
    /\ \/ \E f \in RateInputs, t \in RateInputs :
            /\ job = [NoJob EXCEPT !.op = "rate", !.from = f, !.to = t]
            /\ stack = <<Frame(f, t)>>
       \/ \E b \in CodeInputs, ws \in ShowWallets :
            /\ job = [NoJob EXCEPT !.op = "show", !.to = b, !.wallets = ws]
            /\ stack = <<>>

RateStep ==
    /\ stack # <<>>
    /\ Top(stack).pc = "call"
    /\ ret = NoRet
    /\ stack' = rate_body(stack).stack
    /\ ret' = rate_body(stack).ret
    /\ UNCHANGED <<users, portfolios, current_user, last, pre, nops, nfaults, rq, job, conc>>

RateResume ==
    /\ stack # <<>>
    /\ Top(stack).pc # "call"
    /\ ret # NoRet
    /\ stack' = rate_resume(stack, ret).stack
    /\ ret' = rate_resume(stack, ret).ret
    /\ UNCHANGED <<users, portfolios, current_user, last, pre, nops, nfaults, rq, job, conc>>

\* the outermost get_exchange_rate returns to the caller of the query
RateDone ==
    /\ job.op = "rate"
    /\ ~job.done
    /\ stack = <<>>
    /\ ret # NoRet
    /\ job' = [job EXCEPT !.done = TRUE,
                          !.res = IF ret.kind = "value" THEN "ok" ELSE "ValueError",
                          !.rate = ret.rate]
    /\ ret' = NoRet
    /\ UNCHANGED <<users, portfolios, current_user, last, pre, nops, nfaults, rq, stack, conc>>

\* show_portfolio lines 97-104: the next wallet of the loop
ShowLoop ==
    /\ job.op = "show"
    /\ ~job.done
    /\ stack = <<>>
    /\ ret = NoRet
    /\ job.i <= Len(job.wallets)
    /\ IF job.wallets[job.i].key = job.to
       THEN /\ job' = [job EXCEPT !.total = @ + job.wallets[job.i].balance,
                                  !.i = @ + 1]
            /\ stack' = stack
       ELSE /\ job' = job
            /\ stack' = <<Frame(job.wallets[job.i].key, job.to)>>
    /\ UNCHANGED <<users, portfolios, current_user, last, pre, nops, nfaults, rq, ret, conc>>

\* show_portfolio lines 104-109: the rate came back, or the call raised
ShowResume ==
    /\ job.op = "show"
    /\ stack = <<>>
    /\ ret # NoRet
    /\ job' = [job EXCEPT
                 !.total = @ + (IF ret.kind = "value"
                                THEN Mul(job.wallets[job.i].balance, ret.rate)
                                ELSE 0),
                 !.i = @ + 1]
    /\ ret' = NoRet
    /\ UNCHANGED <<users, portfolios, current_user, last, pre, nops, nfaults, rq, stack, conc>>

\* show_portfolio lines 117-121: the loop is over
ShowReturn ==
    /\ job.op = "show"
    /\ ~job.done
    /\ stack = <<>>
    /\ ret = NoRet
    /\ job.i > Len(job.wallets)
    /\ job' = [job EXCEPT !.done = TRUE, !.res = "ok"]
    /\ UNCHANGED <<users, portfolios, current_user, last, pre, nops, nfaults, rq,
                   stack, ret, conc>>

NextExec ==
    \/ RateStep
    \/ RateResume
    \/ RateDone
    \/ ShowLoop
    \/ ShowResume
    \/ ShowReturn

\* a single thread runs the call: a step that can be taken is taken
SpecExec == InitExec /\ [][NextExec]_vars /\ WF_vars(NextExec)

----------------------------------------------------------------------------
(* Concurrent callers.  Each caller is a process with its own UserManager  *)
(* session.  deposit, buy and sell touch the ledger file twice: load_json  *)
(* at the start and save_json at the end, with no lock in between, so a    *)
(* call is two steps and the steps of two callers interleave.              *)

\* calls the callers make in a run, all together
MaxCalls == 3

ConcCodes == {"USD", "EUR"}

ConcAmounts == {1, MaxAmount}

\* the stores after `register alice` and `register bob`
TwoUsers ==
    LET r1 == register(Missing, Missing, "alice", "123456", "5f", "ok", "ok")
    IN  register(r1.users, r1.portfolios, "bob", "123456", "5f", "ok", "ok")

\* the session after login(username, "123456")
Session(username) ==
    login(NoUser, TwoUsers.users, username, "123456").current_user

\* the PortfolioManager method a caller runs
run(op, cu, store, currency_code, amount) ==
    CASE op = "deposit" -> deposit(cu, store, currency_code, amount)
      [] op = "buy"     -> buy(cu, store, currency_code, amount)
      [] op = "sell"    -> sell(cu, store, currency_code, amount)

\* a save that puts the caller's record into the ledger as it is on disk now
written_merged(cu, op, currency_code, amount, seen, current) ==
    LET o == run(op, cu, seen, currency_code, amount)
        own == o.data[find_portfolio(o.data, cu.user_id)]
    IN  put_portfolio(load_json(current, <<>>), cu.user_id, own, TRUE)

\* save_json("data/portfolios.json", portfolios): the list passed is the one
\* loaded at the start of the call, with the caller's record replaced
written(cu, op, currency_code, amount, seen, current) ==
    run(op, cu, seen, currency_code, amount).data

InitConc ==
    /\ users = TwoUsers.users
    /\ portfolios = TwoUsers.portfolios
    /\ current_user = NoUser
    /\ last = NoCall
    /\ pre = portfolios
    /\ nops = 0
    /\ nfaults = 0
    /\ rq = NoQuery
    /\ job = NoJob
    /\ stack = <<>>
    /\ ret = NoRet
    /\ \E u \in Usernames :
          callers = [c \in Callers |->
                        IF c = 1 THEN Idle(Session("alice")) ELSE Idle(Session(u))]
    /\ writer = NoWrite

\* the first half of a call: the checks, load_json and the work in memory; a
\* call that fails returns here
CallBegin(c, op, currency_code, amount) ==
    /\ callers[c].pc = "idle"
    /\ callers[1].n + callers[2].n < MaxCalls
    /\ \E o \in {run(op, callers[c].user, portfolios, currency_code, amount)} :
          callers' = [callers EXCEPT ![c] =
              IF o.save
              THEN [pc |-> "saving", user |-> callers[c].user, op |-> op,
                    code |-> currency_code, amount |-> amount, seen |-> portfolios,
                    res |-> "", n |-> callers[c].n + 1]
              ELSE [Idle(callers[c].user) EXCEPT !.res = o.res,
                                                 !.n = callers[c].n + 1]]
    /\ UNCHANGED <<users, portfolios, current_user, last, pre, nops, nfaults, rq,
                   exec, writer>>

\* the second half: save_json and return (True, message)
CallEnd(c) ==
    /\ callers[c].pc = "saving"
    /\ portfolios' = save_json("ok", portfolios,
                               written(callers[c].user, callers[c].op, callers[c].code,
                                       callers[c].amount, callers[c].seen, portfolios))
    /\ callers' = [callers EXCEPT ![c] =
                      [Idle(callers[c].user) EXCEPT !.res = "ok", !.n = callers[c].n]]
    /\ writer' = [caller |-> c, user |-> callers[c].user, op |-> callers[c].op,
                  code |-> callers[c].code, amount |-> callers[c].amount,
                  seen |-> callers[c].seen,
                  stale |-> callers[c].seen # portfolios,
                  over |-> [caller |-> writer.caller, user |-> writer.user,
                            op |-> writer.op, code |-> writer.code]]
    /\ UNCHANGED <<users, current_user, last, pre, nops, nfaults, rq, exec>>

NextConc ==
    \/ \E c \in Callers, op \in {"deposit", "buy", "sell"},
          k \in ConcCodes, a \in ConcAmounts : CallBegin(c, op, k, a)
    \/ \E c \in Callers : CallEnd(c)

SpecConc == InitConc /\ [][NextConc]_vars

----------------------------------------------------------------------------
(* Reading the ledger in the properties *)

TradeOps == {"deposit", "buy", "sell"}

\* the ledger as the next call will load it, and as the last call found it
Ledger == load_json(portfolios, <<>>)

LedgerBefore == load_json(pre, <<>>)

\* the record of user uid in a ledger, an empty one when there is none
RecordOf(pfs, uid) ==
    IF find_portfolio(pfs, uid) = 0 THEN Portfolio(uid)
    ELSE pfs[find_portfolio(pfs, uid)]

\* the wallet keys of user uid in a ledger, in iteration order
KeySeq(pfs, uid) ==
    [i \in DOMAIN RecordOf(pfs, uid).wallets |-> RecordOf(pfs, uid).wallets[i].key]

HasWallet(pfs, uid, k) == k \in Keys(RecordOf(pfs, uid).wallets)

\* the balance of wallet k of user uid in a ledger, 0 when there is no such wallet
BalanceOf(pfs, uid, k) ==
    IF HasWallet(pfs, uid, k)
    THEN RecordOf(pfs, uid).wallets[KeyIndex(RecordOf(pfs, uid).wallets, k)]
            .wallet.balance
    ELSE 0

\* every wallet other than those in `touched` is as it was before the call,
\* and no wallet other than those in `touched` was created or removed
OthersUntouched(uid, touched) ==
    \A k \in (Keys(RecordOf(LedgerBefore, uid).wallets)
                \cup Keys(RecordOf(Ledger, uid).wallets)) \ touched :
        /\ HasWallet(LedgerBefore, uid, k)
        /\ HasWallet(Ledger, uid, k)
        /\ BalanceOf(Ledger, uid, k) = BalanceOf(LedgerBefore, uid, k)

\* the reference rule of the rate oracle: identity, then the table, then the
\* composition through USD of two legs that are themselves identity or table
DirectRate(from, to) ==
    IF Upper(from) = Upper(to) THEN RateOk(One)
    ELSE IF (Upper(from) \o "_" \o Upper(to)) \in DOMAIN rates
    THEN RateOk(rates[Upper(from) \o "_" \o Upper(to)])
    ELSE RateFail

ReferenceRate(from, to) ==
    IF DirectRate(from, to).ok THEN DirectRate(from, to)
    ELSE IF DirectRate(from, "USD").ok /\ DirectRate("USD", to).ok
    THEN RateOk(<<DirectRate(from, "USD").rate[1] * DirectRate("USD", to).rate[1],
                  DirectRate(from, "USD").rate[2] * DirectRate("USD", to).rate[2]>>)
    ELSE RateFail

----------------------------------------------------------------------------
----------------------------------------------------------------------------
(* C2.  After every successful buy(target, amount) funded by wallet F:     *)
(* F's balance is lower by amount * rate(target, F), the target's balance  *)
(* is higher by amount (from 0 when the wallet is new), and no other       *)
(* wallet of the portfolio is created or changed.                          *)
C2_BuyConservation ==
    (last.op = "buy" /\ last.res = "ok") =>
        LET uid == last.user_id
            F == last.pay
            T == Upper(last.code)
            rate == ReferenceRate(T, F)
        IN  /\ F # T
            /\ rate.ok
            /\ HasWallet(LedgerBefore, uid, F)
            /\ BalanceOf(Ledger, uid, F)
                  = BalanceOf(LedgerBefore, uid, F) - Mul(last.amount, rate.rate)
            /\ HasWallet(Ledger, uid, T)
            /\ BalanceOf(Ledger, uid, T) = BalanceOf(LedgerBefore, uid, T) + last.amount
            /\ OthersUntouched(uid, {F, T})

\* a successful buy created the target wallet in a portfolio that holds a
\* third wallet with funds
C2_Witness ==
    /\ last.op = "buy"
    /\ last.res = "ok"
    /\ ~HasWallet(LedgerBefore, last.user_id, Upper(last.code))
    /\ \E k \in Keys(RecordOf(LedgerBefore, last.user_id).wallets) :
        k # last.pay /\ BalanceOf(LedgerBefore, last.user_id, k) > 0

----------------------------------------------------------------------------
(* C3.  buy debits exactly the first wallet, in iteration order, whose code *)
(* differs from the target ignoring case and whose balance is positive; if  *)
(* there is none it fails with the no-funding-source error and the ledger   *)
(* is unchanged; a later wallet is never used when the first positive one   *)
(* cannot cover the cost.                                                   *)
FirstFunding(uid, code) ==
    LET ks == KeySeq(LedgerBefore, uid)
        funds(i) == Upper(ks[i]) # Upper(code) /\ BalanceOf(LedgerBefore, uid, ks[i]) > 0
    IN  IF \E i \in DOMAIN ks : funds(i)
        THEN ks[CHOOSE i \in DOMAIN ks : funds(i) /\ \A j \in 1 .. (i - 1) : ~funds(j)]
        ELSE ""

C3_FundingWallet ==
    (/\ last.op = "buy"
     /\ last.user_id # 0
     /\ get_currency(last.code).ok
     /\ last.amount > 0) =>
        LET uid == last.user_id
            F == FirstFunding(uid, last.code)
            cost == Mul(last.amount, ReferenceRate(last.code, F).rate)
        IN  IF F = ""
            THEN last.res = "fail" /\ last.err = "NoFundingSource" /\ portfolios = pre
            ELSE /\ last.pay = F
                 /\ last.res = "ok" =>
                        /\ BalanceOf(Ledger, uid, F) < BalanceOf(LedgerBefore, uid, F)
                        /\ \A k \in Keys(RecordOf(LedgerBefore, uid).wallets) \ {F} :
                              BalanceOf(Ledger, uid, k) >= BalanceOf(LedgerBefore, uid, k)
                 /\ BalanceOf(LedgerBefore, uid, F) < cost =>
                        last.res = "fail" /\ portfolios = pre

\* a successful buy was funded by a wallet that is not the first one of the
\* portfolio: the wallets before it are the target or hold nothing
C3_Witness ==
    /\ last.op = "buy"
    /\ last.res = "ok"
    /\ KeySeq(LedgerBefore, last.user_id)[1] # last.pay
    /\ Upper(KeySeq(LedgerBefore, last.user_id)[1]) # Upper(last.code)

----------------------------------------------------------------------------
(* C4.  For a logged-in user, deposit(code, amount) with a catalog code and *)
(* amount > 0 succeeds, creates the wallet (and the portfolio record) when  *)
(* absent, raises exactly that wallet's persisted balance by amount and     *)
(* leaves every other wallet of the portfolio unchanged.                    *)
C4_Deposit ==
    (/\ last.op = "deposit"
     /\ last.user_id # 0
     /\ get_currency(last.code).ok
     /\ last.amount > 0) =>
        LET uid == last.user_id
            K == Upper(last.code)
        IN  /\ last.res = "ok"
            /\ find_portfolio(Ledger, uid) # 0
            /\ HasWallet(Ledger, uid, K)
            /\ BalanceOf(Ledger, uid, K) = BalanceOf(LedgerBefore, uid, K) + last.amount
            /\ OthersUntouched(uid, {K})

\* a deposit under a lower-case code raised an existing balance, beside
\* another wallet
C4_Witness ==
    /\ last.op = "deposit"
    /\ last.res = "ok"
    /\ last.code # Upper(last.code)
    /\ BalanceOf(LedgerBefore, last.user_id, Upper(last.code)) > 0
    /\ \E k \in Keys(RecordOf(LedgerBefore, last.user_id).wallets) : k # Upper(last.code)

----------------------------------------------------------------------------
(* C5.  After every successful sell(source, amount), for every catalog     *)
(* source currency, USD included: the source wallet's persisted balance is *)
(* exactly amount lower, the chosen target wallet's balance is exactly     *)
(* amount * rate(source, target) higher, and no third wallet changes.      *)
C5_SellConservation ==
    (last.op = "sell" /\ last.res = "ok" /\ last.code \in CURRENCY_REGISTRY) =>
        LET uid == last.user_id
            S == last.code
            T == last.pay
        IN  /\ BalanceOf(Ledger, uid, S) = BalanceOf(LedgerBefore, uid, S) - last.amount
            /\ BalanceOf(Ledger, uid, T)
                  = BalanceOf(LedgerBefore, uid, T)
                    + Mul(last.amount, ReferenceRate(S, T).rate)
            /\ OthersUntouched(uid, {S, T})

----------------------------------------------------------------------------
(* C6.  sell credits USD when the portfolio holds a USD wallet or holds no *)
(* wallet other than the source, and otherwise the first wallet in         *)
(* iteration order whose currency is not the source; the source is the     *)
(* resolved code, so the choice does not depend on the letter case of the  *)
(* argument and is never the source wallet in the second branch.           *)
ExpectedSellTarget(uid, code) ==
    LET ks == KeySeq(LedgerBefore, uid)
        S == get_currency(code).code
        other(i) == ks[i] # S
    IN  IF (\E i \in DOMAIN ks : ks[i] = "USD") \/ (\A i \in DOMAIN ks : ~other(i))
        THEN "USD"
        ELSE ks[CHOOSE i \in DOMAIN ks : other(i) /\ \A j \in 1 .. (i - 1) : ~other(j)]

C6_SellTarget ==
    (last.op = "sell" /\ last.pay # "") =>
        last.pay = ExpectedSellTarget(last.user_id, last.code)

----------------------------------------------------------------------------
(* C7.  Every deposit/buy/sell call that returns failure leaves the        *)
(* persisted ledger unchanged, and every call with amount <= 0 returns     *)
(* failure.                                                                *)
C7_FailureLeavesLedger ==
    (last.op \in TradeOps) =>
        /\ last.res = "fail" => portfolios = pre
        /\ last.amount <= 0 => last.res = "fail"

\* a sell failed after its withdraw had succeeded in memory: the deposit of
\* a revenue of zero raised
C7_Witness ==
    /\ last.op = "sell"
    /\ last.res = "fail"
    /\ last.err = "ValueError"
    /\ last.pay # ""
    /\ last.value = 0
    /\ BalanceOf(LedgerBefore, last.user_id, Upper(last.code)) >= last.amount

----------------------------------------------------------------------------
(* C8.  When writing the ledger store fails during deposit, buy or sell,   *)
(* the call does not return success.                                       *)
C8_WriteFailureSurfaced ==
    (last.op \in TradeOps /\ last.saved \in {"fail", "trunc"}) => last.res # "ok"

----------------------------------------------------------------------------
(* C9.  deposit, buy, sell, get_rate and show_portfolio, called while no   *)
(* user is logged in, return the not-authenticated failure without reading *)
(* a rate or the ledger.                                                   *)
C9_RequiresLogin ==
    (/\ last.op \in {"deposit", "buy", "sell", "get_rate", "show_portfolio"}
     /\ last.user_id = 0) =>
        /\ last.res = "fail"
        /\ last.err = "NotAuthenticated"
        /\ ~last.read_rate
        /\ ~last.read_ledger

----------------------------------------------------------------------------
(* C10.  get_exchange_rate(from, to) is 1.0 when the codes are equal       *)
(* ignoring case, else the table entry of the ordered pair, else           *)
(* rate(from, USD) * rate(USD, to) when both legs resolve, else it fails;  *)
(* every returned rate is strictly positive.                               *)
C10_RateRule ==
    (rq # NoQuery) =>
        /\ rq.res = ReferenceRate(rq.from, rq.to)
        /\ rq.res.ok => (rq.res.rate[1] > 0 /\ rq.res.rate[2] > 0)

\* a pair with no table entry was answered through USD, from lower-case codes
C10_Witness ==
    /\ rq.from = "btc"
    /\ rq.to = "eth"
    /\ rq.res = RateOk(<<5933721 * 27, 100 * 100000>>)

----------------------------------------------------------------------------
(* C11.  Every operation terminates: get_exchange_rate(from, to) for every *)
(* pair of code strings, unknown codes included, ends by returning a rate  *)
(* or by failing with rate-unavailable, with the answer of the rate rule;  *)
(* show_portfolio(base) ends for every base, an unknown one included.      *)
C11_Terminates ==
    /\ <>(job.done /\ stack = <<>>)
    /\ [](job.done =>
            /\ job.res \in {"ok", "ValueError"}
            /\ job.op = "rate" =>
                  /\ (job.res = "ok") = get_exchange_rate(job.from, job.to).ok
                  /\ job.rate = get_exchange_rate(job.from, job.to).rate)

\* the query of an unknown code against another currency has ended in failure
C11_Witness ==
    /\ job.op = "rate"
    /\ job.done
    /\ job.from = "XYZ"
    /\ job.to = "EUR"
    /\ job.res = "ValueError"

----------------------------------------------------------------------------
(* C12.  Every portfolio of the persisted ledger loads with the user id,   *)
(* the wallet codes in the order and the balances it was stored with, and  *)
(* from_dict(to_dict(p)) is p again for the loaded portfolio p; a store    *)
(* that is missing or holds no JSON loads as the empty list, and a         *)
(* registration that finds the ledger so stores one empty portfolio.       *)
C12_RoundTrip ==
    /\ \A i \in DOMAIN Ledger :
        LET d == Ledger[i]
            p == Portfolio_from_dict(d)
        IN  /\ p.user_id = d.user_id
            /\ DOMAIN p.wallets = DOMAIN d.wallets
            /\ \A j \in DOMAIN d.wallets :
                  /\ p.wallets[j].key = d.wallets[j].key
                  /\ p.wallets[j].wallet.currency_code = d.wallets[j].wallet.currency_code
                  /\ p.wallets[j].wallet.balance = d.wallets[j].wallet.balance
            /\ Portfolio_from_dict(Portfolio_to_dict(p)) = p
    /\ \A f \in {users, portfolios, pre} :
          f.kind # "json" => load_json(f, <<>>) = <<>>
    /\ (last.op = "register" /\ last.res = "ok" /\ pre.kind # "json") =>
          /\ Len(Ledger) = 1
          /\ Ledger[1].wallets = <<>>

\* a trade left a portfolio whose wallets are not in alphabetical order, each
\* with funds
C12_Witness ==
    /\ last.op \in {"buy", "sell"}
    /\ last.res = "ok"
    /\ KeySeq(Ledger, last.user_id) = <<"USD", "BTC">>
    /\ BalanceOf(Ledger, last.user_id, "USD") > 0
    /\ BalanceOf(Ledger, last.user_id, "BTC") > 0

----------------------------------------------------------------------------
(* C13.  With two callers running deposit/buy/sell at the same time, each  *)
(* as load the whole list, modify, save the whole list with no lock, the   *)
(* persisted ledger is what the last writer computed from the list it had  *)
(* loaded: an update another caller saved in between is overwritten,       *)
(* although both calls return success.                                     *)
C13_LastWriterWins ==
    (writer # NoWrite) =>
        /\ Ledger = run(writer.op, writer.user, writer.seen,
                        writer.code, writer.amount).data
        /\ \A uid \in 1 .. MaxRecords :
              uid # writer.user.user_id =>
                  RecordOf(Ledger, uid) = RecordOf(load_json(writer.seen, <<>>), uid)

\* two calls, one by each caller, both returned success; alice's deposit was
\* saved first, bob's call had loaded the ledger before and saved after, and
\* the ledger holds nothing of alice's deposit
C13_Witness ==
    /\ callers[1].n = 1
    /\ callers[2].n = 1
    /\ callers[1].pc = "idle"
    /\ callers[2].pc = "idle"
    /\ callers[1].res = "ok"
    /\ callers[2].res = "ok"
    /\ callers[1].user # callers[2].user
    /\ writer.caller = 2
    /\ writer.stale
    /\ writer.over.caller = 1
    /\ writer.over.op = "deposit"
    /\ ~HasWallet(Ledger, callers[1].user.user_id, writer.over.code)
    /\ HasWallet(Ledger, callers[2].user.user_id, writer.code)

----------------------------------------------------------------------------
(* C14.  In the interactive shell, `deposit <currency> <amount>` entered   *)
(* by a logged-in user who has a portfolio, with a catalog currency and a  *)
(* positive amount, raises the persisted balance of that currency by the   *)
(* amount; with a non-positive amount or an unknown currency nothing is    *)
(* stored.                                                                 *)
C14_ShellDeposit ==
    (last.op = "shell deposit" /\ float(last.code2).ok) =>
        LET uid == last.user_id
            K == Upper(last.code)
        IN  /\ (/\ uid # 0
                /\ find_portfolio(LedgerBefore, uid) # 0
                /\ get_currency(last.code).ok
                /\ last.amount > 0) =>
                    /\ HasWallet(Ledger, uid, K)
                    /\ BalanceOf(Ledger, uid, K) = BalanceOf(LedgerBefore, uid, K) + last.amount
            /\ (last.amount <= 0 \/ ~get_currency(last.code).ok) => portfolios = pre

----------------------------------------------------------------------------
(* C15.  After any sequence of register/login/deposit/buy/sell calls from  *)
(* empty stores, the user ids of the user store are pairwise distinct      *)
(* positive integers, the usernames are pairwise distinct, and the ledger  *)
(* holds exactly one portfolio record for each registered user id and no   *)
(* other record.                                                           *)
C15_OneRecordPerUser ==
    LET us == load_json(users, <<>>)
    IN  /\ \A i \in DOMAIN us : us[i].user_id > 0
        /\ \A i, j \in DOMAIN us :
              i # j => /\ us[i].user_id # us[j].user_id
                       /\ us[i].username # us[j].username
        /\ \A i \in DOMAIN us :
              Cardinality({k \in DOMAIN Ledger : Ledger[k].user_id = us[i].user_id}) = 1
        /\ \A k \in DOMAIN Ledger :
              \E i \in DOMAIN us : us[i].user_id = Ledger[k].user_id
        /\ Len(LedgerBefore) <= Len(Ledger)

\* the second of two registered users has traded: two records, the second
\* one rewritten in place
C15_Witness ==
    /\ Len(load_json(users, <<>>)) = 2
    /\ last.op \in {"buy", "sell"}
    /\ last.res = "ok"
    /\ last.user_id = 2
    /\ Len(Ledger) = 2
    /\ Ledger[2].user_id = 2
    /\ Ledger[2].wallets # <<>>

----------------------------------------------------------------------------
(* C16.  In every reachable portfolio there is at most one wallet per      *)
(* currency code, codes compared ignoring case, and each wallet is stored  *)
(* under the key equal to its own currency code; the get-or-create step of *)
(* deposit/buy/sell returns the existing wallet when there is one and      *)
(* never adds a second; add_wallet on an existing code fails and leaves    *)
(* the portfolio as it was.                                                *)
C16_OneWalletPerCode ==
    \A i \in DOMAIN Ledger :
        LET p == Portfolio_from_dict(Ledger[i])
            ws == p.wallets
        IN  /\ \A j, k \in DOMAIN ws : j # k => Upper(ws[j].key) # Upper(ws[k].key)
            /\ \A j \in DOMAIN ws :
                  /\ ws[j].key = ws[j].wallet.currency_code
                  /\ Ledger[i].wallets[j].key = Ledger[i].wallets[j].wallet.currency_code
            /\ \A c \in CodeInputs :
                  get_currency(c).ok =>
                      LET q == ensure_wallet(p, c)
                          again == Portfolio_add_wallet(q, c)
                          had == \E j \in DOMAIN ws : ws[j].key = Upper(c)
                      IN  /\ had => q = p
                          /\ ~had => Len(q.wallets) = Len(ws) + 1
                          /\ Portfolio_get_wallet(q, c) # 0
                          /\ ensure_wallet(q, c) = q
                          /\ ~again.ok
                          /\ again.portfolio = q

\* a buy under a lower-case code has paid into the wallet that existed under
\* the upper-case code, and the portfolio has as many wallets as before
C16_Witness ==
    /\ last.op = "buy"
    /\ last.res = "ok"
    /\ last.code = "btc"
    /\ HasWallet(LedgerBefore, last.user_id, "BTC")
    /\ Len(KeySeq(Ledger, last.user_id)) = Len(KeySeq(LedgerBefore, last.user_id))
    /\ BalanceOf(Ledger, last.user_id, "BTC") > BalanceOf(LedgerBefore, last.user_id, "BTC")

----------------------------------------------------------------------------
(* C17.  A deposit, buy or sell of the logged-in user, successful or not,  *)
(* leaves the record of every other user id in the persisted ledger as it  *)
(* was and leaves the records in the same order; show_portfolio and        *)
(* get_rate leave the whole ledger as it was.                              *)
C17_Frame ==
    /\ (last.op \in TradeOps) =>
          /\ Len(Ledger) >= Len(LedgerBefore)
          /\ \A i \in DOMAIN LedgerBefore :
                /\ Ledger[i].user_id = LedgerBefore[i].user_id
                /\ LedgerBefore[i].user_id # last.user_id => Ledger[i] = LedgerBefore[i]
          /\ \A i \in DOMAIN Ledger :
                i > Len(LedgerBefore) => Ledger[i].user_id = last.user_id
    /\ (last.op \in {"show_portfolio", "get_rate"}) => portfolios = pre

\* the second user has sold while the first user holds funds: the first
\* record is as it was and the second one has changed in place
C17_Witness ==
    /\ last.op = "sell"
    /\ last.res = "ok"
    /\ last.user_id = 2
    /\ Len(Ledger) = 2
    /\ Ledger[1].user_id = 1
    /\ Ledger[1].wallets # <<>>
    /\ Ledger[1] = LedgerBefore[1]
    /\ Ledger[2] # LedgerBefore[2]

====
